---- MODULE Spec2Model ----
(***************************************************************************)
(* Model of tools/gen_docs.py: the MkDocs staging script that copies root  *)
(* Markdown files into the virtual documentation tree and rewrites a few   *)
(* relative links.                                                         *)
(*                                                                         *)
(* A text is a sequence of one-character strings, so that str.replace is   *)
(* modelled on characters, as Python computes it.                          *)
(***************************************************************************)
EXTENDS Naturals, Sequences, FiniteSets

VARIABLES
    fs,       \* real file system: source path -> file (exists, text)
    tree,     \* mkdocs_gen_files virtual tree: destination path -> text written
    order,    \* the sequence of destinations the for loop iterates over
    idx,      \* position of the for loop in order
    pc,       \* "idle", "loop", "done", "read_error", "write_error"
    name,     \* rewrite_links: argument name
    content,  \* rewrite_links: argument content
    result,   \* value returned by rewrite_links(name, content)
    again,    \* value returned by rewrite_links(name, result)
    calls     \* number of rewrite_links calls made so far (0, 1, 2)

vars == <<fs, tree, order, idx, pc, name, content, result, again, calls>>

-----------------------------------------------------------------------------
(* String literals of the source, as character sequences.                  *)

DocsPrefix == <<".", "/", "d", "o", "c", "s", "/">>

TemplatesPrefix == <<".", "/", "_", "t", "e", "m", "p", "l", "a", "t", "e", "s", "/">>

TemplatesSite == <<"_", "t", "e", "m", "p", "l", "a", "t", "e", "s", "/">>

LicenseRef == <<".", "/", "L", "I", "C", "E", "N", "S", "E">>

LicenseUrl == <<"h", "t", "t", "p", "s", ":", "/", "/", "g", "i", "t", "h", "u", "b", ".", "c", "o", "m", "/", "a", "r", "t", "i", "f", "i", "c", "i", "a", "l", "-", "i", "n", "t", "e", "l", "l", "i", "g", "e", "n", "c", "e", "-", "f", "i", "r", "s", "t", "/", "s", "s", "o", "t", "/", "b", "l", "o", "b", "/", "m", "a", "i", "n", "/", "L", "I", "C", "E", "N", "S", "E">>

Empty == << >>

-----------------------------------------------------------------------------
(* str.replace(old, new) for a non-empty old, as CPython computes it: find *)
(* the leftmost occurrence at or after the scan position, copy the text    *)
(* before it, copy new, continue the scan after the occurrence; the rest   *)
(* of the text is copied once no occurrence is left.                       *)

MatchAt(s, i, old) ==
    /\ i + Len(old) - 1 <= Len(s)
    /\ \A k \in 1..Len(old) : s[i + k - 1] = old[k]

\* str.find(old, from): the set of occurrences at or after from, and its least.
FindFrom(s, from, old) == {i \in from..Len(s) : MatchAt(s, i, old)}

Least(S) == CHOOSE i \in S : \A j \in S : i <= j

RECURSIVE ReplaceFrom(_, _, _, _)
ReplaceFrom(s, from, old, new) ==
    LET hits == FindFrom(s, from, old)
    IN  IF hits = {} THEN SubSeq(s, from, Len(s))
        ELSE SubSeq(s, from, Least(hits) - 1) \o new
                 \o ReplaceFrom(s, Least(hits) + Len(old), old, new)

\* str.replace(old, new, 1): only the leftmost occurrence is replaced.
ReplaceFirstOnly(s, old, new) ==
    LET hits == FindFrom(s, 1, old)
    IN  IF hits = {} THEN s
        ELSE SubSeq(s, 1, Least(hits) - 1) \o new
                 \o SubSeq(s, Least(hits) + Len(old), Len(s))

Replace(s, old, new) == ReplaceFrom(s, 1, old, new)

-----------------------------------------------------------------------------
(* rewrite_links(name, content): two independent if statements.            *)

\* Variants of rewrite_links that differ from the source in one place.
rewrite_links_no_docs_rule(n, c) ==
    LET c1 == IF n = "index.md"
              THEN Replace(Replace(c, TemplatesPrefix, TemplatesSite),
                           LicenseRef, LicenseUrl)
              ELSE c
    IN  IF n = "AGENTS.md" THEN Replace(c1, DocsPrefix, Empty) ELSE c1

rewrite_links_no_templates_rule(n, c) ==
    LET c1 == IF n = "index.md"
              THEN Replace(Replace(c, DocsPrefix, Empty), LicenseRef, LicenseUrl)
              ELSE c
    IN  IF n = "AGENTS.md" THEN Replace(c1, DocsPrefix, Empty) ELSE c1

rewrite_links_no_license_rule(n, c) ==
    LET c1 == IF n = "index.md"
              THEN Replace(Replace(c, DocsPrefix, Empty), TemplatesPrefix, TemplatesSite)
              ELSE c
    IN  IF n = "AGENTS.md" THEN Replace(c1, DocsPrefix, Empty) ELSE c1

rewrite_links_short_pattern(n, c) ==
    LET c1 == IF n = "index.md"
              THEN Replace(Replace(Replace(c, <<".", "/">>, Empty),
                                   TemplatesPrefix, TemplatesSite),
                           LicenseRef, LicenseUrl)
              ELSE c
    IN  IF n = "AGENTS.md" THEN Replace(c1, <<".", "/">>, Empty) ELSE c1

rewrite_links_else_branch(n, c) ==
    LET c1 == IF n = "index.md"
              THEN Replace(Replace(Replace(c, DocsPrefix, Empty),
                                   TemplatesPrefix, TemplatesSite),
                           LicenseRef, LicenseUrl)
              ELSE c
    IN  IF n # "index.md" THEN Replace(c1, DocsPrefix, Empty) ELSE c1

rewrite_links_agents_all_rules(n, c) ==
    IF n \in {"index.md", "AGENTS.md"}
    THEN Replace(Replace(Replace(c, DocsPrefix, Empty),
                         TemplatesPrefix, TemplatesSite),
                 LicenseRef, LicenseUrl)
    ELSE c

rewrite_links(n, c) ==
    LET c1 == IF n = "index.md"
              THEN Replace(Replace(Replace(c, DocsPrefix, Empty),
                                   TemplatesPrefix, TemplatesSite),
                           LicenseRef, LicenseUrl)
              ELSE c
    IN  IF n = "AGENTS.md" THEN Replace(c1, DocsPrefix, Empty) ELSE c1

-----------------------------------------------------------------------------
(* SOURCES: destination -> source path, in declaration order.              *)

SOURCES ==
    << <<"index.md", "README.md">>,
       <<"AGENTS.md", "AGENTS.md">>,
       <<"_templates/TOPIC_TEMPLATE.md", "_templates/TOPIC_TEMPLATE.md">>,
       <<"_templates/SECTION_TEMPLATE.md", "_templates/SECTION_TEMPLATE.md">>,
       <<"_templates/FRONT_MATTER.md", "_templates/FRONT_MATTER.md">> >>

Targets == {SOURCES[i][1] : i \in 1..Len(SOURCES)}

SourcePaths == {SOURCES[i][2] : i \in 1..Len(SOURCES)}

DeclaredOrder == [i \in 1..Len(SOURCES) |-> SOURCES[i][1]]

SourceOf(target) ==
    SOURCES[CHOOSE i \in 1..Len(SOURCES) : SOURCES[i][1] = target][2]

-----------------------------------------------------------------------------
(* Input texts: concatenations of at most MaxFrags fragments.              *)

MaxFrags == 3

ExampleIn == <<"S", "e", "e", " ", ".", "/", "d", "o", "c", "s", "/", "g", "u", "i", "d", "e", ".", "m", "d", " ", "f", "o", "r", " ", "d", "e", "t", "a", "i", "l", "s", ".">>

ExampleOut == <<"S", "e", "e", " ", "g", "u", "i", "d", "e", ".", "m", "d", " ", "f", "o", "r", " ", "d", "e", "t", "a", "i", "l", "s", ".">>

Fragments ==
    << DocsPrefix,
       <<".", "/", "d", "o">>,
       <<"c", "s", "/">>,
       TemplatesPrefix,
       LicenseRef,
       <<".", "/">>,
       <<".">>,
       <<"/">>,
       <<"g", "u", "i", "d", "e", ".", "m", "d">> >>

RECURSIVE Concat(_)
Concat(ix) ==
    IF ix = << >> THEN << >> ELSE Fragments[Head(ix)] \o Concat(Tail(ix))

Texts ==
    {Concat(ix) : ix \in UNION {[1..n -> 1..Len(Fragments)] : n \in 0..MaxFrags}}
        \cup {ExampleIn}

\* Destination names rewrite_links is called with: the keys of SOURCES and
\* one name that is no key.
Names == Targets \cup {"other.md"}

\* A source path with no readable file behind it, and one holding text t.
NoFile == [exists |-> FALSE, text |-> << >>]

File(t) == [exists |-> TRUE, text |-> t]

-----------------------------------------------------------------------------
(* Calls of the pure function rewrite_links.                               *)

InitRW ==
    /\ name \in Names
    /\ content \in Texts
    /\ result = << >>
    /\ again = << >>
    /\ calls = 0
    /\ fs = [p \in SourcePaths |-> NoFile]
    /\ tree = << >>
    /\ order = DeclaredOrder
    /\ idx = 1
    /\ pc = "idle"

Rewrite ==
    /\ calls = 0
    /\ pc = "idle"
    /\ result' = rewrite_links(name, content)
    /\ calls' = 1
    /\ UNCHANGED <<fs, tree, order, idx, pc, name, content, again>>

RewriteAgain ==
    /\ calls = 1
    /\ pc = "idle"
    /\ again' = rewrite_links(name, result)
    /\ calls' = 2
    /\ UNCHANGED <<fs, tree, order, idx, pc, name, content, result>>

NextRW == Rewrite \/ RewriteAgain

SpecRW == InitRW /\ [][NextRW]_vars

-----------------------------------------------------------------------------
(* The module-level staging loop: for target, source in SOURCES.items().   *)

\* Contents a source file is given in the staging runs.
StageTexts ==
    { DocsPrefix \o <<"g", "u", "i", "d", "e", ".", "m", "d">>,
      TemplatesPrefix \o LicenseRef }

\* The loop stops one entry early.
HasNext_stops_early(i) == i < Len(order)

\* The for loop has an entry left at position i.
HasNext(i) == i <= Len(order)

\* The page is written under the first component of the destination path.
WriteFile_first_component(tr, target, text) ==
    LET key == IF target \in {"index.md", "AGENTS.md"} THEN target ELSE "_templates"
    IN  [p \in DOMAIN tr \cup {key} |-> IF p = key THEN text ELSE tr[p]]

\* with mkdocs_gen_files.open(target, "w") as dest: dest.write(text)
\* The page at target is created or fully overwritten; no other page changes.
WriteFile(tr, target, text) ==
    [p \in DOMAIN tr \cup {target} |-> IF p = target THEN text ELSE tr[p]]

InitFiles ==
    /\ tree = [p \in {} |-> << >>]
    /\ idx = 1
    /\ pc = "loop"
    /\ name = "index.md"
    /\ content = << >>
    /\ result = << >>
    /\ again = << >>
    /\ calls = 0

Init ==
    /\ fs \in [SourcePaths -> {File(t) : t \in StageTexts} \cup {NoFile}]
    /\ order = DeclaredOrder
    /\ InitFiles

\* One iteration of the loop body: read, rewrite, write.
StageEntry ==
    /\ pc = "loop"
    /\ HasNext(idx)
    /\ fs[SourceOf(order[idx])].exists
    /\ tree' = WriteFile(tree, order[idx],
                         rewrite_links(order[idx], fs[SourceOf(order[idx])].text))
    /\ idx' = idx + 1
    /\ UNCHANGED <<fs, order, pc, name, content, result, again, calls>>

\* The destination is opened before the source is read.
ReadFail_opened_first ==
    /\ pc = "loop"
    /\ HasNext(idx)
    /\ ~fs[SourceOf(order[idx])].exists
    /\ pc' = "read_error"
    /\ tree' = WriteFile(tree, order[idx], << >>)
    /\ UNCHANGED <<fs, order, idx, name, content, result, again, calls>>

\* source.read_text raises (the file is missing or not text): nothing
\* catches it, the script ends.
ReadFail ==
    /\ pc = "loop"
    /\ HasNext(idx)
    /\ ~fs[SourceOf(order[idx])].exists
    /\ pc' = "read_error"
    /\ UNCHANGED <<fs, tree, order, idx, name, content, result, again, calls>>

\* mkdocs_gen_files.open or dest.write raises: the page is not created, or it
\* holds a proper prefix of the text; nothing catches it, the script ends.
WriteFail ==
    /\ pc = "loop"
    /\ HasNext(idx)
    /\ fs[SourceOf(order[idx])].exists
    /\ pc' = "write_error"
    /\ LET text == rewrite_links(order[idx], fs[SourceOf(order[idx])].text)
       IN  \/ tree' = tree
           \/ \E k \in 0..(Len(text) - 1) :
                  tree' = WriteFile(tree, order[idx], SubSeq(text, 1, k))
    /\ UNCHANGED <<fs, order, idx, name, content, result, again, calls>>

\* The loop is exhausted: the script ends normally.
Finish ==
    /\ pc = "loop"
    /\ ~HasNext(idx)
    /\ pc' = "done"
    /\ UNCHANGED <<fs, tree, order, idx, name, content, result, again, calls>>

Next == StageEntry \/ ReadFail \/ WriteFail \/ Finish

Spec == Init /\ [][Next]_vars

\* The same loop body run over any permutation of the declared order, every
\* source readable.
InitPerm ==
    /\ fs \in [SourcePaths -> {File(t) : t \in StageTexts}]
    /\ order \in {o \in [1..Len(SOURCES) -> Targets] :
                     \A i, j \in 1..Len(SOURCES) : i # j => o[i] # o[j]}
    /\ InitFiles

NextPerm == StageEntry \/ Finish

SpecPerm == InitPerm /\ [][NextPerm]_vars

-----------------------------------------------------------------------------
(* Vocabulary of the properties of rewrite_links, stated independently of  *)
(* the scan above: occurrences are compared as whole substrings, and the   *)
(* reference replacement rewrites every occurrence position by position.   *)

Occurrences(s, pat) ==
    {i \in 1..Len(s) : i + Len(pat) - 1 <= Len(s) /\ SubSeq(s, i, i + Len(pat) - 1) = pat}

Occurs(s, pat) == Occurrences(s, pat) # {}

\* What position i of s contributes once every occurrence in occ (of a
\* pattern of length n) is replaced by new.
Piece(s, i, occ, n, new) ==
    IF i \in occ THEN new
    ELSE IF \E j \in occ : j < i /\ i < j + n THEN << >>
    ELSE <<s[i]>>

RECURSIVE JoinPieces(_, _, _, _, _, _)
JoinPieces(s, lo, hi, occ, n, new) ==
    IF lo > hi THEN << >>
    ELSE IF lo = hi THEN Piece(s, lo, occ, n, new)
    ELSE JoinPieces(s, lo, (lo + hi) \div 2, occ, n, new)
             \o JoinPieces(s, (lo + hi) \div 2 + 1, hi, occ, n, new)

EveryOccurrenceReplaced(s, pat, new) ==
    JoinPieces(s, 1, Len(s), Occurrences(s, pat), Len(pat), new)

RulePatterns(n) ==
    IF n = "index.md" THEN {DocsPrefix, TemplatesPrefix, LicenseRef}
    ELSE IF n = "AGENTS.md" THEN {DocsPrefix}
    ELSE {}

-----------------------------------------------------------------------------
\* C2 (as stated): for index.md the returned text never contains ./docs/.
C2_NoDocsPrefixLeft ==
    (calls >= 1 /\ name = "index.md") => ~Occurs(result, DocsPrefix)

\* C2 (amended): for index.md the returned text contains ./docs/ exactly when
\* deleting every occurrence of ./docs/ from the input, in one pass, itself
\* leaves one (the deletion joined the surrounding text into a new ./docs/);
\* the two later rules neither introduce nor remove an occurrence.
C2_DocsPrefixOnlyFromJoining ==
    (calls >= 1 /\ name = "index.md") =>
        (Occurs(result, DocsPrefix)
            <=> Occurs(EveryOccurrenceReplaced(content, DocsPrefix, Empty), DocsPrefix))

C2_Witness ==
    /\ calls = 1
    /\ name = "index.md"
    /\ Occurs(content, DocsPrefix)
    /\ ~Occurs(result, DocsPrefix)
    /\ result = <<"g", "u", "i", "d", "e", ".", "m", "d">>

\* C3 (as stated): for index.md the returned text never contains ./_templates/.
C3_NoTemplatesPrefixLeft ==
    (calls >= 1 /\ name = "index.md") => ~Occurs(result, TemplatesPrefix)

\* C3 (amended): for index.md every occurrence of ./_templates/ is replaced by
\* _templates/, and the returned text contains ./_templates/ exactly when the
\* text, after the ./docs/ deletion, contains ././_templates/ (an occurrence
\* preceded by another ./).
C3_TemplatesPrefixOnlyAfterDotSlash ==
    (calls >= 1 /\ name = "index.md") =>
        (Occurs(result, TemplatesPrefix)
            <=> Occurs(EveryOccurrenceReplaced(content, DocsPrefix, Empty),
                       <<".", "/">> \o TemplatesPrefix))

C3_Witness ==
    /\ calls = 1
    /\ name = "index.md"
    /\ Occurs(content, TemplatesPrefix)
    /\ ~Occurs(result, TemplatesPrefix)
    /\ Occurs(result, TemplatesSite)

\* C4: for index.md the returned text never contains ./LICENSE, and it holds
\* the license URL at least once for every occurrence of ./LICENSE in the input.
C4_NoLicenseRefLeft ==
    (calls >= 1 /\ name = "index.md") =>
        /\ ~Occurs(result, LicenseRef)
        /\ Cardinality(Occurrences(result, LicenseUrl))
               >= Cardinality(Occurrences(content, LicenseRef))

C4_Witness ==
    /\ calls = 1
    /\ name = "index.md"
    /\ Cardinality(Occurrences(content, LicenseRef)) = 2
    /\ Cardinality(Occurrences(result, LicenseUrl)) = 2
    /\ ~Occurs(result, LicenseRef)

\* C5 (as stated): rewriting is idempotent for every name and every text.
C5_Idempotent ==
    calls = 2 => again = result

\* C5 (amended): a second rewriting is a no-op whenever the text returned by
\* the first contains none of the search substrings of the name's rules.
C5_IdempotentWhenNoPatternLeft ==
    (calls = 2 /\ \A pat \in RulePatterns(name) : ~Occurs(result, pat)) =>
        again = result

C5_Witness ==
    /\ calls = 2
    /\ name = "index.md"
    /\ \E pat \in RulePatterns(name) : Occurs(content, pat)
    /\ \A pat \in RulePatterns(name) : ~Occurs(result, pat)
    /\ result # content
    /\ again = result

\* C7: for every name other than index.md and AGENTS.md the returned text is
\* the input text, whatever it contains.
C7_NoRulesVerbatim ==
    (calls >= 1 /\ name \notin {"index.md", "AGENTS.md"}) => result = content

C7_Witness ==
    /\ calls = 1
    /\ name = "_templates/TOPIC_TEMPLATE.md"
    /\ Occurs(content, DocsPrefix)
    /\ Occurs(content, TemplatesPrefix)
    /\ Occurs(content, LicenseRef)
    /\ result = content

\* C8: for AGENTS.md the returned text is the input with every occurrence of
\* ./docs/ deleted and everything else kept; the example of the spec holds.
C8_AgentsOnlyDocsRule ==
    (calls >= 1 /\ name = "AGENTS.md") =>
        /\ result = EveryOccurrenceReplaced(content, DocsPrefix, Empty)
        /\ (content = ExampleIn => result = ExampleOut)

C8_Witness ==
    /\ calls = 1
    /\ name = "AGENTS.md"
    /\ content = ExampleIn
    /\ result = ExampleOut

\* C10: for index.md the returned text is the three replacements applied in
\* declared sequence, each to the whole result of the one before, each
\* replacing every occurrence; a step whose search substring does not occur
\* leaves its text unchanged.
C10_ThreeRulesInSequence ==
    (calls >= 1 /\ name = "index.md") =>
        LET s1 == EveryOccurrenceReplaced(content, DocsPrefix, Empty)
            s2 == EveryOccurrenceReplaced(s1, TemplatesPrefix, TemplatesSite)
            s3 == EveryOccurrenceReplaced(s2, LicenseRef, LicenseUrl)
        IN  /\ result = s3
            /\ ~Occurs(content, DocsPrefix) => s1 = content
            /\ ~Occurs(s1, TemplatesPrefix) => s2 = s1
            /\ ~Occurs(s2, LicenseRef) => result = s2

C10_Witness ==
    /\ calls = 1
    /\ name = "index.md"
    /\ content = DocsPrefix \o TemplatesPrefix \o LicenseRef
    /\ result = TemplatesSite \o LicenseUrl

-----------------------------------------------------------------------------
(* Properties of the staging loop.                                         *)

Staged(target) == rewrite_links(target, fs[SourceOf(target)].text)

\* C1: only keys of SOURCES are ever written, and a run that ends without
\* error has written exactly the key set of SOURCES.
C1_ExactlyTheKeySet ==
    /\ DOMAIN tree \subseteq Targets
    /\ pc = "done" => DOMAIN tree = Targets

C1_Witness ==
    /\ pc = "done"
    /\ DOMAIN tree = Targets
    /\ \A t \in Targets : tree[t] = Staged(t)

\* C6: when the read of an entry fails the run stops there: every earlier
\* entry of the order is written in full, the failing entry and every later
\* one are not written at all, no step follows, and a run with a missing
\* source never ends normally.
C6_AbortAtMissingSource ==
    /\ pc = "read_error" =>
           /\ ~fs[SourceOf(order[idx])].exists
           /\ \A j \in 1..Len(order) :
                  IF j < idx
                  THEN order[j] \in DOMAIN tree /\ tree[order[j]] = Staged(order[j])
                  ELSE order[j] \notin DOMAIN tree
           /\ ~ENABLED Next
    /\ pc = "done" => \A p \in SourcePaths : fs[p].exists

C6_Witness ==
    /\ pc = "read_error"
    /\ idx = 3
    /\ DOMAIN tree = {"index.md", "AGENTS.md"}
    /\ fs["_templates/FRONT_MATTER.md"].exists

RECURSIVE RunDeclaredFrom(_, _)
RunDeclaredFrom(tr, i) ==
    IF i > Len(SOURCES) THEN tr
    ELSE RunDeclaredFrom(WriteFile(tr, SOURCES[i][1], Staged(SOURCES[i][1])), i + 1)

\* C9: with every source readable, a run over any permutation of the entries
\* ends with the tree a run in declared order produces.
C9_OrderIndependent ==
    pc = "done" => tree = RunDeclaredFrom([p \in {} |-> << >>], 1)

C9_Witness ==
    /\ pc = "done"
    /\ order[1] = "_templates/FRONT_MATTER.md"
    /\ order[5] = "index.md"
    /\ fs["_templates/FRONT_MATTER.md"] # fs["_templates/TOPIC_TEMPLATE.md"]
    /\ tree = RunDeclaredFrom([p \in {} |-> << >>], 1)

====
